---- MODULE Spec2Model ----
(***************************************************************************)
(* The persistent-worker request queue of backend/server.js: one long-     *)
(* lived Python inference worker, a FIFO queue of prediction jobs, the     *)
(* line protocol on the worker's stdout, the per-job 60 s timer, the 5 s   *)
(* respawn timer, the one-shot fallback and the /api/predict response.     *)
(*                                                                         *)
(* Every handler of the program is one action.  The handlers are written   *)
(* as operators on a record s holding the program state, so that a handler *)
(* that calls another one (processResult -> processNextRequest) is the     *)
(* composition of the operators.                                           *)
(***************************************************************************)
EXTENDS Integers, Sequences, FiniteSets, TLC

\* ---------------------------------------------------------------- bounds
\* Number of sendPrediction calls of a run.
MaxJobs == 2
\* Number of sendPrediction calls of a run of FairSpec, the specification
\* the liveness of the respawn is checked under.
MaxJobsLive == 1
\* Number of process slots for the persistent worker (the program itself
\* never limits the number of processes it spawns).
MaxProcs == 2

\* The lines a one-shot process prints, at most.
MaxPrinted == 2
\* Number of sendPrediction calls, and of lines the worker writes, of a run
\* of ChunkSpec, the specification of the stdout stream as text.
MaxJobsChunk == 2
MaxWrote == 3

\* ------------------------------------------------------------- constants
\* `let pythonProcess = null`
Null == 0

ProcIds == 1..MaxProcs

\* The requests of a run: req.file.path and req.body.modelPath || null.  Two
\* calls of sendPrediction may carry the same image path.
Requests ==
    {[imagePath |-> "a.jpg", modelPath |-> "null"],
     [imagePath |-> "b.jpg", modelPath |-> "best.pt"]}

\* Exit status of a worker that had been spawned.
ExitCodes == {0, 1}

\* Exit status the close event carries after a failed spawn (ENOENT).
SpawnFailCode == 0 - 2

\* Payloads of a RESULT: line.  "bad" is not JSON; "ok" is a result with
\* success true and both image paths; "fail" has success false; "noimg" has
\* success true and no output_image / input_image.
Payloads == {"bad", "ok", "fail", "noimg"}

ReadyLine == [tag |-> "READY", payload |-> ""]
ErrorLine == [tag |-> "ERROR", payload |-> ""]
OtherLine == [tag |-> "OTHER", payload |-> ""]
ResultLine(payload) == [tag |-> "RESULT", payload |-> payload]

Lines == {ReadyLine, ErrorLine, OtherLine} \cup {ResultLine(x) : x \in Payloads}

\* The data events.  Each carries one line: the handler treats the lines of
\* an event one after the other (HandleData), so an event of several lines
\* acts as the events of its lines in a row.
Chunks == {<<line>> : line \in Lines}

\* What the one-shot process printed: no line beginning with '{', a last
\* '{' line that is not JSON, or a result as in Payloads.
OneShotOutputs == {"nojson", "bad", "ok", "fail", "noimg"}

VARIABLES
    pythonProcess,   \* Null or the slot of the process the global refers to
    isModelLoaded,
    requestQueue,    \* sequence of job numbers (the queue entries)
    isProcessing,
    jobs,            \* one record per sendPrediction call, in call order
    procs,           \* the worker processes, by slot
    respawnTimers,   \* number of pending setTimeout(startPythonServer, 5000)
    written,         \* the predict messages written to a worker's stdin
    resolvedLog,     \* job numbers in the order processResult resolved them
    uncaught,        \* an exception left a handler
    wire             \* the worker's stdout as text: what it wrote, what of
                     \* it is not yet delivered, and the lines recognised

vars == <<pythonProcess, isModelLoaded, requestQueue, isProcessing, jobs, procs,
          respawnTimers, written, resolvedLog, uncaught, wire>>

\* The program state as one record; threw is set while an exception
\* propagates inside a handler.
St ==
    [pythonProcess |-> pythonProcess, isModelLoaded |-> isModelLoaded,
     requestQueue |-> requestQueue, isProcessing |-> isProcessing,
     jobs |-> jobs, procs |-> procs, respawnTimers |-> respawnTimers,
     written |-> written, resolvedLog |-> resolvedLog, threw |-> FALSE]

\* The handler's result becomes the program's next state.
Update(s) ==
    /\ pythonProcess' = s.pythonProcess
    /\ isModelLoaded' = s.isModelLoaded
    /\ requestQueue' = s.requestQueue
    /\ isProcessing' = s.isProcessing
    /\ jobs' = s.jobs
    /\ procs' = s.procs
    /\ respawnTimers' = s.respawnTimers
    /\ written' = s.written
    /\ resolvedLog' = s.resolvedLog
    /\ uncaught' = (uncaught \/ s.threw)

\* The handler's result becomes the next state; the worker's output arrives
\* line by line and none of it is pending.
Becomes(s) == Update(s) /\ wire' = wire

\* No output written, pending or recognised.
NoWire == [text |-> <<>>, wrote |-> <<>>, seen |-> <<>>]

NoProc == [st |-> "none", stdin |-> <<>>, ready |-> FALSE]

NoValue == [success |-> FALSE, forJob |-> 0, err |-> ""]

\* ------------------------------------------------------- promise handles
\* resolve(v) and reject(e) of a job's promise: the first call settles the
\* handle, every later call is ignored.
resolve(s, j, v) ==
    IF s.jobs[j].handle = "pending"
    THEN [s EXCEPT !.jobs[j].handle = "resolved", !.jobs[j].value = v]
    ELSE s

reject(s, j, e) ==
    IF s.jobs[j].handle = "pending"
    THEN [s EXCEPT !.jobs[j].handle = "rejected",
                   !.jobs[j].value = [success |-> FALSE, forJob |-> 0, err |-> e]]
    ELSE s

\* ------------------------------------------------------------ the worker
\* WorkerState of the specification, read off the program's variables.
WorkerState(s) ==
    IF s.pythonProcess = Null THEN "Crashed"
    ELSE IF ~s.isModelLoaded THEN "Starting"
    ELSE IF s.isProcessing THEN "Busy"
    ELSE "Ready"

\* As stdinWrite, sending the model path as it was given.
stdinWrite_noDefault(s, j) ==
    LET p == s.pythonProcess
        msg == [job |-> j, proc |-> p, ready |-> s.procs[p].ready,
                image_path |-> s.jobs[j].imagePath,
                model_path |-> s.jobs[j].modelPath]
    IN  [s EXCEPT !.written = Append(@, msg),
                  !.procs[p].stdin = IF s.procs[p].st = "running"
                                     THEN Append(@, j) ELSE @]

\* pythonProcess.stdin.write(command + '\n'): the predict message built from
\* the head job goes to the process the global refers to.
stdinWrite(s, j) ==
    LET p == s.pythonProcess
        msg == [job |-> j, proc |-> p, ready |-> s.procs[p].ready,
                image_path |-> s.jobs[j].imagePath,
                model_path |-> IF s.jobs[j].modelPath = "null" THEN "default"
                               ELSE s.jobs[j].modelPath]
    IN  [s EXCEPT !.written = Append(@, msg),
                  !.procs[p].stdin = IF s.procs[p].st = "running"
                                     THEN Append(@, j) ELSE @]

\* As processNextRequest, without the isProcessing test.
processNextRequest_noBusyTest(s) ==
    IF Len(s.requestQueue) = 0 \/ ~s.isModelLoaded
    THEN s
    ELSE LET s1 == [s EXCEPT !.isProcessing = TRUE]
         IN  IF s1.pythonProcess = Null
             THEN [s1 EXCEPT !.threw = TRUE]
             ELSE stdinWrite(s1, Head(s1.requestQueue))

processNextRequest(s) ==
    IF Len(s.requestQueue) = 0 \/ s.isProcessing \/ ~s.isModelLoaded
    THEN s
    ELSE LET s1 == [s EXCEPT !.isProcessing = TRUE]
         IN  IF s1.pythonProcess = Null
             THEN [s1 EXCEPT !.threw = TRUE]   \* TypeError: null.stdin
             ELSE stdinWrite(s1, Head(s1.requestQueue))

\* As processResult, resolving the job the worker was answering rather than
\* the head of the queue.
processResult_matchesJob(s, result) ==
    IF Len(s.requestQueue) > 0
    THEN LET j  == IF result.forJob # 0 THEN result.forJob
                   ELSE Head(s.requestQueue)
             s1 == [s EXCEPT !.requestQueue = Tail(@)]
         IN  IF result.success /\ ~result.images
             THEN [s1 EXCEPT !.threw = TRUE]
             ELSE LET v  == [success |-> result.success,
                             forJob |-> result.forJob, err |-> ""]
                      s2 == resolve([s1 EXCEPT !.resolvedLog = Append(@, j)], j, v)
                  IN  processNextRequest([s2 EXCEPT !.isProcessing = FALSE])
    ELSE s

\* processResult(result): result is the parsed payload, tagged with the job
\* whose predict message the worker was answering (0: none).
processResult(s, result) ==
    IF Len(s.requestQueue) > 0
    THEN LET j  == Head(s.requestQueue)
             s1 == [s EXCEPT !.requestQueue = Tail(@)]
         IN  IF result.success /\ ~result.images
             THEN [s1 EXCEPT !.threw = TRUE]   \* path.basename(undefined)
             ELSE LET v  == [success |-> result.success,
                             forJob |-> result.forJob, err |-> ""]
                      s2 == resolve([s1 EXCEPT !.resolvedLog = Append(@, j)], j, v)
                  IN  processNextRequest([s2 EXCEPT !.isProcessing = FALSE])
    ELSE s

\* As JSONparse, taking a payload that is not JSON for a failed result.
JSONparse_lenient(payload) ==
    CASE payload = "ok"    -> [ok |-> TRUE, success |-> TRUE, images |-> TRUE]
      [] payload = "fail"  -> [ok |-> TRUE, success |-> FALSE, images |-> FALSE]
      [] payload = "noimg" -> [ok |-> TRUE, success |-> TRUE, images |-> FALSE]
      [] OTHER             -> [ok |-> TRUE, success |-> FALSE, images |-> FALSE]

\* JSON.parse of a payload: ok is FALSE when it throws a SyntaxError.
JSONparse(payload) ==
    CASE payload = "ok"    -> [ok |-> TRUE, success |-> TRUE, images |-> TRUE]
      [] payload = "fail"  -> [ok |-> TRUE, success |-> FALSE, images |-> FALSE]
      [] payload = "noimg" -> [ok |-> TRUE, success |-> TRUE, images |-> FALSE]
      [] OTHER             -> [ok |-> FALSE, success |-> FALSE, images |-> FALSE]

\* As HandleLine, with READY: dispatching the head of the queue.
HandleLine_readyDispatches(s, p, line) ==
    CASE line.tag = "READY" ->
            LET s1 == processNextRequest(
                          [s EXCEPT !.isModelLoaded = TRUE, !.procs[p].ready = TRUE])
            IN  [s1 EXCEPT !.threw = FALSE]
      [] line.tag = "RESULT" ->
            LET inbox  == s.procs[p].stdin
                forJob == IF inbox = <<>> THEN 0 ELSE Head(inbox)
                s1     == IF inbox = <<>> THEN s
                          ELSE [s EXCEPT !.procs[p].stdin = Tail(inbox),
                                         !.jobs[forJob].answer = line.payload]
                parsed == JSONparse(line.payload)
            IN  IF ~parsed.ok
                THEN s1                       \* caught: SyntaxError, logged
                ELSE LET s2 == processResult(s1,
                                  [success |-> parsed.success,
                                   images |-> parsed.images, forJob |-> forJob])
                     IN  [s2 EXCEPT !.threw = FALSE]   \* caught, logged
      [] line.tag = "ERROR" -> s              \* logged
      [] OTHER -> s                           \* logged

\* As HandleLine, with ERROR: failing the job at the head of the queue.
HandleLine_errorFails(s, p, line) ==
    CASE line.tag = "READY" ->
            [s EXCEPT !.isModelLoaded = TRUE, !.procs[p].ready = TRUE]
      [] line.tag = "RESULT" ->
            LET inbox  == s.procs[p].stdin
                forJob == IF inbox = <<>> THEN 0 ELSE Head(inbox)
                s1     == IF inbox = <<>> THEN s
                          ELSE [s EXCEPT !.procs[p].stdin = Tail(inbox),
                                         !.jobs[forJob].answer = line.payload]
                parsed == JSONparse(line.payload)
            IN  IF ~parsed.ok
                THEN s1
                ELSE LET s2 == processResult(s1,
                                  [success |-> parsed.success,
                                   images |-> parsed.images, forJob |-> forJob])
                     IN  [s2 EXCEPT !.threw = FALSE]
      [] line.tag = "ERROR" ->
            IF s.requestQueue = <<>> THEN s
            ELSE reject([s EXCEPT !.requestQueue = Tail(@),
                                  !.isProcessing = FALSE],
                        Head(s.requestQueue), "worker error")
      [] OTHER -> s

\* One line of a data event of process p.  A RESULT: line is the worker's
\* answer to the oldest predict message it has not answered yet (the worker
\* answers in order), and the payload is recorded as that job's answer; with
\* no message outstanding the line answers none.
HandleLine(s, p, line) ==
    CASE line.tag = "READY" ->
            [s EXCEPT !.isModelLoaded = TRUE, !.procs[p].ready = TRUE]
      [] line.tag = "RESULT" ->
            LET inbox  == s.procs[p].stdin
                forJob == IF inbox = <<>> THEN 0 ELSE Head(inbox)
                s1     == IF inbox = <<>> THEN s
                          ELSE [s EXCEPT !.procs[p].stdin = Tail(inbox),
                                         !.jobs[forJob].answer = line.payload]
                parsed == JSONparse(line.payload)
            IN  IF ~parsed.ok
                THEN s1                       \* caught: SyntaxError, logged
                ELSE LET s2 == processResult(s1,
                                  [success |-> parsed.success,
                                   images |-> parsed.images, forJob |-> forJob])
                     IN  [s2 EXCEPT !.threw = FALSE]   \* caught, logged
      [] line.tag = "ERROR" -> s              \* logged
      [] OTHER -> s                           \* logged

\* lines.forEach(...)
RECURSIVE HandleData(_, _, _)
HandleData(s, p, lines) ==
    IF lines = <<>> THEN s
    ELSE HandleData(HandleLine(s, p, Head(lines)), p, Tail(lines))

\* ------------------------------------------------------ process lifecycle
FreeSlots(s) == {p \in ProcIds : s.procs[p].st = "none"}

LowestFree(s) == CHOOSE p \in FreeSlots(s) : \A q \in FreeSlots(s) : p <= q

\* As startPythonServer, taking the worker for loaded once it is spawned.
startPythonServer_assumesLoaded(s, outcome) ==
    LET p == LowestFree(s)
    IN  [s EXCEPT !.pythonProcess = p,
                  !.isModelLoaded = TRUE,
                  !.procs[p] = [st |-> IF outcome = "ok" THEN "running" ELSE "failed",
                                stdin |-> <<>>, ready |-> FALSE]]

\* startPythonServer(): spawn sets the global to the new process; outcome
\* tells whether the interpreter could be started.  A process that could not
\* be started emits 'error' and then 'close'.
startPythonServer(s, outcome) ==
    LET p == LowestFree(s)
    IN  [s EXCEPT !.pythonProcess = p,
                  !.procs[p] = [st |-> IF outcome = "ok" THEN "running" ELSE "failed",
                                stdin |-> <<>>, ready |-> FALSE]]

\* As closeHandler, leaving isModelLoaded as it is.
closeHandler_keepsLoaded(s, p, code) ==
    [s EXCEPT !.pythonProcess = Null,
              !.procs[p] = NoProc,
              !.respawnTimers = IF code # 0 THEN @ + 1 ELSE @]

\* As closeHandler, restarting the worker after a clean exit only.
closeHandler_noRestart(s, p, code) ==
    [s EXCEPT !.isModelLoaded = FALSE,
              !.pythonProcess = Null,
              !.procs[p] = NoProc,
              !.respawnTimers = IF code = 0 THEN @ + 1 ELSE @]

\* As closeHandler, failing the jobs the worker leaves behind.
closeHandler_failsJobs(s, p, code) ==
    [s EXCEPT !.isModelLoaded = FALSE,
              !.pythonProcess = Null,
              !.procs[p] = NoProc,
              !.respawnTimers = IF code # 0 THEN @ + 1 ELSE @,
              !.requestQueue = <<>>,
              !.isProcessing = FALSE,
              !.jobs = [j \in DOMAIN @ |->
                          IF @[j].route = "queue" /\ @[j].handle = "pending"
                          THEN [@[j] EXCEPT !.handle = "rejected",
                                            !.value = [success |-> FALSE, forJob |-> 0,
                                                       err |-> "worker exited"]]
                          ELSE @[j]]]

\* pythonProcess.on('close', code => ...)
closeHandler(s, p, code) ==
    [s EXCEPT !.isModelLoaded = FALSE,
              !.pythonProcess = Null,
              !.procs[p] = NoProc,
              !.respawnTimers = IF code # 0 THEN @ + 1 ELSE @]

\* As errorHandler, scheduling a restart of its own.
errorHandler_restarts(s, p) ==
    [s EXCEPT !.isModelLoaded = FALSE,
              !.procs[p].st = "errored",
              !.respawnTimers = @ + 1]

\* pythonProcess.on('error', error => ...)
errorHandler(s, p) ==
    [s EXCEPT !.isModelLoaded = FALSE,
              !.procs[p].st = "errored"]

\* ------------------------------------------------------- sendPrediction
NewJob(imagePath, modelPath, route) ==
    [imagePath |-> imagePath, modelPath |-> modelPath, route |-> route,
     handle |-> "pending", value |-> NoValue,
     timer |-> "none", answer |-> "none",
     oneshot |-> IF route = "oneshot" THEN "running" ELSE "none"]

\* As sendPrediction, taking the fallback only when there is no process.
sendPrediction_queuesUnloaded(s, imagePath, modelPath) ==
    LET j == Len(s.jobs) + 1
    IN  IF s.pythonProcess = Null
        THEN [s EXCEPT !.jobs = Append(@, NewJob(imagePath, modelPath, "oneshot"))]
        ELSE LET s1 == [s EXCEPT
                          !.jobs = Append(@, NewJob(imagePath, modelPath, "queue")),
                          !.requestQueue = Append(@, j)]
                 s2 == processNextRequest(s1)
             IN  IF s2.threw
                 THEN reject([s2 EXCEPT !.threw = FALSE], j, "TypeError")
                 ELSE [s2 EXCEPT !.jobs[j].timer = "armed"]

\* As sendPrediction, putting the job at the front of the queue.
sendPrediction_unshift(s, imagePath, modelPath) ==
    LET j == Len(s.jobs) + 1
    IN  IF s.pythonProcess = Null \/ ~s.isModelLoaded
        THEN [s EXCEPT !.jobs = Append(@, NewJob(imagePath, modelPath, "oneshot"))]
        ELSE LET s1 == [s EXCEPT
                          !.jobs = Append(@, NewJob(imagePath, modelPath, "queue")),
                          !.requestQueue = <<j>> \o @]
                 s2 == processNextRequest(s1)
             IN  IF s2.threw
                 THEN reject([s2 EXCEPT !.threw = FALSE], j, "TypeError")
                 ELSE [s2 EXCEPT !.jobs[j].timer = "armed"]

\* As sendPrediction, taking the fallback also while a job is in flight.
sendPrediction_fallbackWhenBusy(s, imagePath, modelPath) ==
    LET j == Len(s.jobs) + 1
    IN  IF s.pythonProcess = Null \/ ~s.isModelLoaded \/ s.isProcessing
        THEN [s EXCEPT !.jobs = Append(@, NewJob(imagePath, modelPath, "oneshot"))]
        ELSE LET s1 == [s EXCEPT
                          !.jobs = Append(@, NewJob(imagePath, modelPath, "queue")),
                          !.requestQueue = Append(@, j)]
                 s2 == processNextRequest(s1)
             IN  IF s2.threw
                 THEN reject([s2 EXCEPT !.threw = FALSE], j, "TypeError")
                 ELSE [s2 EXCEPT !.jobs[j].timer = "armed"]

\* sendPrediction(imagePath, modelPath, outputDir): the promise executor.  An
\* exception thrown by the executor rejects the promise, and the lines after
\* the throw (the setTimeout) do not run.
sendPrediction(s, imagePath, modelPath) ==
    LET j == Len(s.jobs) + 1
    IN  IF s.pythonProcess = Null \/ ~s.isModelLoaded
        THEN [s EXCEPT !.jobs = Append(@, NewJob(imagePath, modelPath, "oneshot"))]
        ELSE LET s1 == [s EXCEPT
                          !.jobs = Append(@, NewJob(imagePath, modelPath, "queue")),
                          !.requestQueue = Append(@, j)]
                 s2 == processNextRequest(s1)
             IN  IF s2.threw
                 THEN reject([s2 EXCEPT !.threw = FALSE], j, "TypeError")
                 ELSE [s2 EXCEPT !.jobs[j].timer = "armed"]

\* requestQueue.findIndex(r => r.imagePath === imagePath): 0 for -1.
findIndex(s, imagePath) ==
    LET hits == {i \in 1..Len(s.requestQueue) :
                   s.jobs[s.requestQueue[i]].imagePath = imagePath}
    IN  IF hits = {} THEN 0 ELSE CHOOSE i \in hits : \A k \in hits : i <= k

\* requestQueue.splice(index, 1)
splice(q, index) == SubSeq(q, 1, index - 1) \o SubSeq(q, index + 1, Len(q))

\* The callback of job j's 60 s timer.
timeoutCallback(s, j) ==
    LET index == findIndex(s, s.jobs[j].imagePath)
        s1    == [s EXCEPT !.jobs[j].timer = "fired"]
    IN  IF index # 0
        THEN reject([s1 EXCEPT !.requestQueue = splice(@, index)], j,
                    "Inference timeout")
        ELSE s1

\* ------------------------------------------------------ one-shot fallback
\* proc.on('error', reject) of the process of runOneShotInference.
oneShotError(s, j) ==
    reject([s EXCEPT !.jobs[j].oneshot = "errored"], j, "spawn error")

\* proc.on('close', code => ...) of runOneShotInference; out is what the
\* process printed.
oneShotClose(s, j, code, out) ==
    LET s1 == IF s.jobs[j].oneshot = "errored" THEN s
              ELSE [s EXCEPT !.jobs[j].oneshot = "closed"]
    IN  IF code # 0
        THEN reject(s1, j, "Inference failed")
        ELSE IF out = "nojson" \/ out = "bad" \/ out = "noimg"
        THEN reject(s1, j, "Failed to parse inference result")
        ELSE resolve(s1, j, [success |-> (out = "ok"), forJob |-> j, err |-> ""])

\* ------------------------------------------------------- POST /api/predict
\* The response of the request of job j once its handle is settled:
\* res.json(result), or status 500 with success false and an error field.
Response(j) ==
    IF jobs[j].handle = "resolved"
    THEN [status |-> 200, success |-> jobs[j].value.success, error |-> "",
          forJob |-> jobs[j].value.forJob]
    ELSE [status |-> 500, success |-> FALSE, error |-> "Inference failed",
          forJob |-> 0]

Responded(j) == jobs[j].handle # "pending"

\* ------------------------------------------------- stdout as text
\* The text of the worker's stdout is a sequence of pieces of text; a data
\* event can end between any two of them.  A line is its prefix in two
\* pieces, its payload and a newline.
Prefix(tag) ==
    CASE tag = "READY"  -> <<"REA", "DY:">>
      [] tag = "RESULT" -> <<"RES", "ULT:">>
      [] tag = "ERROR"  -> <<"ERR", "OR:">>
      [] OTHER          -> <<>>

\* The payload of a RESULT: line that reports a success, in two pieces.
OkJson == <<"{ok", "}">>

\* The lines the worker writes: tag and payload.
WorkerLines ==
    [READY  |-> [tag |-> "READY", payload |-> <<>>],
     RESULT |-> [tag |-> "RESULT", payload |-> OkJson],
     ERROR  |-> [tag |-> "ERROR", payload |-> <<"oom">>]]

TextOf(l) == Prefix(l.tag) \o l.payload \o <<"\n">>

\* String.prototype.trim on the text of a data event.
RECURSIVE trimStart(_)
trimStart(t) ==
    IF t # <<>> /\ Head(t) = "\n" THEN trimStart(Tail(t)) ELSE t

RECURSIVE trimEnd(_)
trimEnd(t) ==
    IF t # <<>> /\ t[Len(t)] = "\n" THEN trimEnd(SubSeq(t, 1, Len(t) - 1)) ELSE t

trim(t) == trimEnd(trimStart(t))

\* split('\n'): the pieces between the newlines; the empty text gives one
\* empty line.
RECURSIVE splitFrom(_, _)
splitFrom(t, cur) ==
    IF t = <<>> THEN <<cur>>
    ELSE IF Head(t) = "\n" THEN <<cur>> \o splitFrom(Tail(t), <<>>)
    ELSE splitFrom(Tail(t), Append(cur, Head(t)))

split(t) == splitFrom(t, <<>>)

startsWith(t, prefix) ==
    Len(t) >= Len(prefix) /\ SubSeq(t, 1, Len(prefix)) = prefix

\* The branch of the stdout handler a line of text takes, with the payload
\* line.substring(n) gives it.
Recognise(t) ==
    CASE startsWith(t, Prefix("READY")) ->
            [tag |-> "READY", payload |-> SubSeq(t, 3, Len(t))]
      [] startsWith(t, Prefix("RESULT")) ->
            [tag |-> "RESULT", payload |-> SubSeq(t, 3, Len(t))]
      [] startsWith(t, Prefix("ERROR")) ->
            [tag |-> "ERROR", payload |-> SubSeq(t, 3, Len(t))]
      [] OTHER -> [tag |-> "OTHER", payload |-> t]

\* The line of Lines a recognised line acts as: JSON.parse accepts the
\* whole payload only.
AsLine(l) ==
    CASE l.tag = "READY"  -> ReadyLine
      [] l.tag = "RESULT" -> ResultLine(IF l.payload = OkJson THEN "ok" ELSE "bad")
      [] l.tag = "ERROR"  -> ErrorLine
      [] OTHER            -> OtherLine

\* data.toString().trim().split('\n'), each line recognised.
LinesOfChunk(chunk) ==
    LET pieces == split(trim(chunk))
    IN  [i \in 1..Len(pieces) |-> Recognise(pieces[i])]

\* The recognised lines that are not logged as plain output.
RECURSIVE Tagged(_)
Tagged(ls) ==
    IF ls = <<>> THEN <<>>
    ELSE IF Head(ls).tag = "OTHER" THEN Tagged(Tail(ls))
    ELSE <<Head(ls)>> \o Tagged(Tail(ls))

\* The number of RESULT: lines among ls.
RECURSIVE Results(_)
Results(ls) ==
    IF ls = <<>> THEN 0
    ELSE (IF Head(ls).tag = "RESULT" THEN 1 ELSE 0) + Results(Tail(ls))

\* ----------------------------------------------------------------- actions
Init ==
    \E outcome \in {"ok", "fail"} :
        LET s0 == [pythonProcess |-> Null, isModelLoaded |-> FALSE,
                   requestQueue |-> <<>>, isProcessing |-> FALSE,
                   jobs |-> <<>>, procs |-> [p \in ProcIds |-> NoProc],
                   respawnTimers |-> 0, written |-> <<>>, resolvedLog |-> <<>>,
                   threw |-> FALSE]
            s  == startPythonServer(s0, outcome)
        IN  /\ pythonProcess = s.pythonProcess
            /\ isModelLoaded = s.isModelLoaded
            /\ requestQueue = s.requestQueue
            /\ isProcessing = s.isProcessing
            /\ jobs = s.jobs
            /\ procs = s.procs
            /\ respawnTimers = s.respawnTimers
            /\ written = s.written
            /\ resolvedLog = s.resolvedLog
            /\ uncaught = FALSE
            /\ wire = NoWire

\* A request reaches POST /api/predict and calls sendPrediction; a run holds
\* at most n requests.
Request(n) ==
    /\ Len(jobs) < n
    /\ \E req \in Requests :
          Becomes(sendPrediction(St, req.imagePath, req.modelPath))

SendPrediction == Request(MaxJobs)

SendPredictionLive == Request(MaxJobsLive)

\* A 'data' event of the stdout of worker p.
OnStdoutData ==
    \E p \in ProcIds :
        /\ procs[p].st = "running"
        /\ \E lines \in Chunks : Becomes(HandleData(St, p, lines))

\* The 60 s timer of job j expires.  The timers have the same delay, so they
\* expire in the order they were armed.
OnTimeout ==
    \E j \in 1..Len(jobs) :
        /\ jobs[j].timer = "armed"
        /\ \A k \in 1..(j - 1) : jobs[k].timer # "armed"
        /\ Becomes(timeoutCallback(St, j))

\* The 'error' event of a worker that could not be spawned.
OnError ==
    \E p \in ProcIds :
        /\ procs[p].st = "failed"
        /\ Becomes(errorHandler(St, p))

\* The 'close' event of worker p: a spawned worker exits with some status,
\* a worker that could not be spawned closes after its 'error' event.
OnClose ==
    \E p \in ProcIds :
        \/ /\ procs[p].st = "running"
           /\ \E code \in ExitCodes : Becomes(closeHandler(St, p, code))
        \/ /\ procs[p].st = "errored"
           /\ Becomes(closeHandler(St, p, SpawnFailCode))

\* A respawn timer expires: startPythonServer runs again.
OnRespawnTimer ==
    /\ respawnTimers > 0
    /\ FreeSlots(St) # {}
    /\ \E outcome \in {"ok", "fail"} :
          Becomes(startPythonServer([St EXCEPT !.respawnTimers = @ - 1], outcome))

\* The one-shot process of job j could not be spawned.
OnOneShotError ==
    \E j \in 1..Len(jobs) :
        /\ jobs[j].oneshot = "running"
        /\ Becomes(oneShotError(St, j))

\* The one-shot process of job j closes.
OnOneShotClose ==
    \E j \in 1..Len(jobs) :
        \/ /\ jobs[j].oneshot = "running"
           /\ \E code \in ExitCodes, out \in OneShotOutputs :
                 Becomes(oneShotClose(St, j, code, out))
        \/ /\ jobs[j].oneshot = "errored"
           /\ Becomes(oneShotClose(St, j, SpawnFailCode, "nojson"))

Next ==
    \/ SendPrediction
    \/ OnStdoutData
    \/ OnTimeout
    \/ OnError
    \/ OnClose
    \/ OnRespawnTimer
    \/ OnOneShotError
    \/ OnOneShotClose

Spec == Init /\ [][Next]_vars

NextLive ==
    \/ SendPredictionLive
    \/ OnStdoutData
    \/ OnTimeout
    \/ OnError
    \/ OnClose
    \/ OnRespawnTimer
    \/ OnOneShotError
    \/ OnOneShotClose

\* The event loop runs every expired timer: the respawn timer is weakly
\* fair.  The runs hold MaxJobsLive requests.
FairSpec == Init /\ [][NextLive]_vars /\ WF_vars(OnRespawnTimer)

\* ------------------------------------------- the stdout stream as text
\* A request reaches sendPrediction.
ChunkRequest ==
    /\ Len(jobs) < MaxJobsChunk
    /\ \E req \in Requests :
          /\ Update(sendPrediction(St, req.imagePath, req.modelPath))
          /\ wire' = wire

\* The worker writes a line to its stdout: READY: first, then a RESULT: for
\* a predict message it has not answered yet, or an ERROR:.
WorkerWrites ==
    /\ pythonProcess # Null
    /\ procs[pythonProcess].st = "running"
    /\ Len(wire.wrote) < MaxWrote
    /\ \E l \in {WorkerLines.READY, WorkerLines.RESULT, WorkerLines.ERROR} :
          /\ l.tag = "READY" <=> wire.wrote = <<>>
          /\ l.tag = "RESULT" => Results(wire.wrote) < Len(written)
          /\ wire' = [wire EXCEPT !.text = @ \o TextOf(l),
                                  !.wrote = Append(@, l)]
    /\ UNCHANGED <<pythonProcess, isModelLoaded, requestQueue, isProcessing,
                   jobs, procs, respawnTimers, written, resolvedLog, uncaught>>

\* A 'data' event delivers some first part of the text not yet delivered.
OnStdoutChunk ==
    /\ pythonProcess # Null
    /\ procs[pythonProcess].st = "running"
    /\ \E n \in 1..Len(wire.text) :
          LET ls == LinesOfChunk(SubSeq(wire.text, 1, n))
          IN  /\ Update(HandleData(St, pythonProcess,
                                   [i \in 1..Len(ls) |-> AsLine(ls[i])]))
              /\ wire' = [wire EXCEPT !.text = SubSeq(@, n + 1, Len(@)),
                                      !.seen = @ \o Tagged(ls)]

ChunkNext ==
    \/ ChunkRequest
    \/ WorkerWrites
    \/ OnStdoutChunk

\* The worker stays up, its output arrives in data events that end anywhere.
ChunkSpec == Init /\ [][ChunkNext]_vars

\* ------------------------------------------------------------------ claims
QueueJobs == {j \in 1..Len(jobs) : jobs[j].route = "queue"}

OneShotJobs == {j \in 1..Len(jobs) : jobs[j].route = "oneshot"}

InQueue(j) == \E i \in 1..Len(requestQueue) : requestQueue[i] = j

Written(j) == \E i \in 1..Len(written) : written[i].job = j

LiveProcs == {p \in ProcIds : procs[p].st # "none"}

\* The worker is absent or has not signalled READY:.
Unavailable == pythonProcess = Null \/ ~isModelLoaded

\* C1: while every RESULT line that resolved a job answered a predict
\* message, every job enqueued by sendPrediction that is resolved is resolved
\* with the result the worker produced for that job's own predict message,
\* and the jobs are resolved in submission order.
C1_InOrderDelivery ==
    (\A j \in QueueJobs : jobs[j].handle = "resolved" => jobs[j].value.forJob # 0)
    => /\ \A j \in QueueJobs :
             jobs[j].handle = "resolved" => jobs[j].value.forJob = j
       /\ \A i, k \in 1..Len(resolvedLog) :
             i < k => resolvedLog[i] < resolvedLog[k]

\* C2: at most one predict message is written to a worker and not yet
\* followed by a RESULT line of that worker, and processNextRequest writes
\* nothing while isProcessing is true.
C2_SingleInFlight ==
    /\ \A p \in ProcIds : Len(procs[p].stdin) <= 1
    /\ \A p, q \in ProcIds : p # q => procs[p].stdin = <<>> \/ procs[q].stdin = <<>>
    /\ isProcessing => processNextRequest(St).written = written

\* C2 happens: a job is in flight at the worker while a second one waits
\* behind it, unwritten.
C2_Witness ==
    /\ isProcessing
    /\ Len(requestQueue) >= 2
    /\ pythonProcess # Null
    /\ procs[pythonProcess].stdin = <<requestQueue[1]>>
    /\ ~Written(requestQueue[2])

\* C3: a job whose 60 s timer has expired is settled (rejected with the
\* timeout error unless it had been resolved) and is not in requestQueue.
C3_TimeoutRejects ==
    \A j \in QueueJobs :
        jobs[j].timer = "fired"
        => /\ ~InQueue(j)
           /\ jobs[j].handle # "pending"
           /\ jobs[j].handle = "rejected" => jobs[j].value.err = "Inference timeout"

\* C4: a RESULT: line whose payload is not JSON raises nothing out of the
\* stdout handler, settles no handle and leaves requestQueue (and the busy
\* flag) as they were, in every state it can arrive in.
C4_MalformedResultIgnored ==
    \A p \in ProcIds :
        procs[p].st = "running"
        => LET t == HandleLine(St, p, ResultLine("bad"))
           IN  /\ ~t.threw
               /\ t.requestQueue = requestQueue
               /\ t.isProcessing = isProcessing
               /\ \A j \in 1..Len(jobs) :
                     /\ t.jobs[j].handle = jobs[j].handle
                     /\ t.jobs[j].value = jobs[j].value

\* C4 happens: the worker answered the head job's predict message with a
\* payload that is not JSON; the job is still at the head, unresolved.
C4_Witness ==
    /\ requestQueue # <<>>
    /\ jobs[Head(requestQueue)].answer = "bad"
    /\ jobs[Head(requestQueue)].handle = "pending"
    /\ isProcessing
    /\ ~uncaught

\* C5: every predict message was written to a worker that had emitted
\* READY: before, so none is written between a worker's exit and the READY:
\* of its successor; and while no READY: has come, neither an enqueue nor a
\* timeout nor any line other than READY: writes one.
C5_NoDispatchUntilReady ==
    /\ \A i \in 1..Len(written) : written[i].ready
    /\ (pythonProcess = Null \/ ~procs[pythonProcess].ready)
       => /\ \A req \in Requests :
                sendPrediction(St, req.imagePath, req.modelPath).written = written
          /\ \A j \in 1..Len(jobs) : timeoutCallback(St, j).written = written
          /\ \A p \in ProcIds, line \in Lines \ {ReadyLine} :
                procs[p].st = "running" => HandleLine(St, p, line).written = written

\* C5 happens: the worker exited with a job in the queue, a request arrived
\* after the exit (it went to the fallback), and the respawned worker has not
\* yet emitted READY:.
C5_Witness ==
    /\ requestQueue # <<>>
    /\ pythonProcess # Null
    /\ procs[pythonProcess].st = "running"
    /\ ~procs[pythonProcess].ready
    /\ \E j \in OneShotJobs : \A k \in QueueJobs : k < j

\* C6: while the worker is unavailable sendPrediction starts the one-shot
\* process and enqueues nothing; a one-shot job is never in requestQueue;
\* once its process has failed to spawn or has closed its handle is settled,
\* and the response then carries success true or false, false with an error
\* field whenever the handle was rejected; no exception leaves a handler.
C6_FallbackAlwaysAnswers ==
    /\ Unavailable
       => \A req \in Requests :
             LET t == sendPrediction(St, req.imagePath, req.modelPath)
                 n == Len(jobs) + 1
             IN  /\ t.requestQueue = requestQueue
                 /\ t.written = written
                 /\ t.jobs[n].route = "oneshot"
                 /\ t.jobs[n].oneshot = "running"
                 /\ t.jobs[n].timer = "none"
    /\ \A j \in OneShotJobs :
          /\ ~InQueue(j)
          /\ jobs[j].oneshot \in {"errored", "closed"} => Responded(j)
          /\ Responded(j)
             => /\ Response(j).success \in BOOLEAN
                /\ jobs[j].handle = "rejected"
                   => /\ Response(j).status = 500
                      /\ Response(j).success = FALSE
                      /\ Response(j).error # ""
    /\ ~uncaught

\* C6 happens: the worker could not be spawned, nothing was ever written
\* to a worker, and of two requests one was answered with a result and one
\* with a failure.
C6_Witness ==
    /\ pythonProcess # Null
    /\ procs[pythonProcess].st \in {"failed", "errored"}
    /\ written = <<>>
    /\ \E j, k \in OneShotJobs :
          /\ jobs[j].handle = "rejected"
          /\ jobs[k].handle = "resolved"

\* C7 as claimed: a job submitted while the worker is Starting is held in
\* the queue (sendPrediction appends it to requestQueue), and a READY: line
\* that finds a job waiting at an idle worker writes its predict message.
C7_QueuedWhileStarting ==
    /\ WorkerState(St) = "Starting"
       => \A req \in Requests :
             LET t == sendPrediction(St, req.imagePath, req.modelPath)
             IN  /\ t.requestQueue = Append(requestQueue, Len(jobs) + 1)
                 /\ t.jobs[Len(jobs) + 1].route = "queue"
    /\ \A p \in ProcIds :
          (procs[p].st = "running" /\ p = pythonProcess /\ ~isModelLoaded
             /\ requestQueue # <<>> /\ ~isProcessing)
          => HandleLine(St, p, ReadyLine).written # written

\* C7 as amended: a job submitted while the worker is Starting goes to the
\* one-shot fallback: sendPrediction leaves requestQueue alone, arms no timer
\* and writes nothing; a fallback job is never in requestQueue and no predict
\* message is ever written for it; and a READY: line only marks the worker
\* loaded: it writes no predict message and leaves the queue alone.
C7_StartingGoesToFallback ==
    /\ WorkerState(St) = "Starting"
       => \A req \in Requests :
             LET t == sendPrediction(St, req.imagePath, req.modelPath)
                 n == Len(jobs) + 1
             IN  /\ t.jobs[n].route = "oneshot"
                 /\ t.jobs[n].timer = "none"
                 /\ t.requestQueue = requestQueue
                 /\ t.written = written
    /\ \A j \in OneShotJobs : ~InQueue(j) /\ ~Written(j) /\ jobs[j].timer = "none"
    /\ \A p \in ProcIds :
          procs[p].st = "running"
          => LET t == HandleLine(St, p, ReadyLine)
             IN  /\ t.written = written
                 /\ t.requestQueue = requestQueue
                 /\ t.isProcessing = isProcessing
                 /\ t.isModelLoaded

\* C7 happens: no job has ever been enqueued; a job submitted before the
\* worker's READY: is waiting on its one-shot process, READY: has arrived
\* since, and nothing has been written to the worker.
C7_Witness ==
    /\ pythonProcess # Null
    /\ isModelLoaded
    /\ procs[pythonProcess].ready
    /\ QueueJobs = {}
    /\ written = <<>>
    /\ \E j \in OneShotJobs :
          /\ jobs[j].handle = "pending"
          /\ jobs[j].oneshot = "running"

\* C8: a request whose prediction failed is answered with success false and
\* an error field, and no request is answered with a success:true result
\* that the worker produced for another job's predict message.
C8_NoSuccessOnFailure ==
    \A j \in 1..Len(jobs) :
        Responded(j)
        => /\ jobs[j].handle = "rejected"
              => Response(j).success = FALSE /\ Response(j).error # ""
           /\ Response(j).success => Response(j).forJob \in {0, j}

\* What the close handler does, whatever the state and the exit status.
CloseEffect(code) ==
    \A p \in ProcIds :
        procs[p].st \in {"running", "errored"}
        => LET t == closeHandler(St, p, code)
           IN  /\ ~t.isModelLoaded
               /\ t.pythonProcess = Null
               /\ t.respawnTimers = respawnTimers + (IF code # 0 THEN 1 ELSE 0)

\* C9 as claimed: after every exit the worker is Crashed and a respawn is
\* pending (until it runs and sets pythonProcess again).
C9_AnyExitRespawns ==
    pythonProcess = Null => ~isModelLoaded /\ respawnTimers > 0

\* C9 as amended: every exit leaves the worker Crashed (isModelLoaded false,
\* pythonProcess null); an exit with a status other than 0 schedules one
\* respawn, and the new worker is then eventually spawned; an exit with
\* status 0 schedules none.
C9_NonzeroExitRespawns ==
    /\ [](/\ \A code \in ExitCodes \cup {SpawnFailCode} : CloseEffect(code)
          /\ pythonProcess = Null => ~isModelLoaded)
    /\ (pythonProcess = Null /\ respawnTimers > 0) ~> (pythonProcess # Null)

\* C9 happens: the worker exited with a nonzero status while a job was in
\* the queue; the respawn is pending.
C9_Witness ==
    /\ pythonProcess = Null
    /\ ~isModelLoaded
    /\ respawnTimers = 1
    /\ requestQueue # <<>>

\* C10: the live worker processes and the pending respawn timers are at
\* most one together.
C10_AtMostOneWorker ==
    Cardinality(LiveProcs) + respawnTimers <= 1

\* C10 happens: a worker had been Ready (jobs were enqueued), it exited, a
\* request arrived while there was none, and now no process is alive and one
\* respawn is pending.
C10_Witness ==
    /\ LiveProcs = {}
    /\ respawnTimers = 1
    /\ QueueJobs # {}
    /\ \E j \in OneShotJobs : \A k \in QueueJobs : k < j

\* ---------------------------------------------------- claims, second part
\* The well-formed RESULT: lines: the payload parses and, when it reports
\* success, carries the image paths.
WellFormed == {ResultLine("ok"), ResultLine("fail")}

\* The workers that have a predict message to answer.
Answering == {p \in ProcIds : procs[p].st = "running" /\ procs[p].stdin # <<>>}

\* The jobs whose handle a handler settles in going from St to t.
SettledBy(t) ==
    {j \in 1..Len(jobs) : jobs[j].handle = "pending" /\ t.jobs[j].handle # "pending"}

\* The predict message processNextRequest builds from job j of state s.
PredictOf(s, j) ==
    [job |-> j, proc |-> s.pythonProcess,
     ready |-> s.procs[s.pythonProcess].ready,
     image_path |-> s.jobs[j].imagePath,
     model_path |-> IF s.jobs[j].modelPath = "null" THEN "default"
                    ELSE s.jobs[j].modelPath]

\* C11: every well-formed RESULT: line with which a worker answers a predict
\* message resolves exactly one job, the job at the head of requestQueue when
\* the line arrives, and no job is resolved by two RESULT lines.
C11_ResultConsumedOnce ==
    /\ \A p \in Answering, line \in WellFormed :
          LET t == HandleLine(St, p, line)
          IN  /\ requestQueue # <<>>
              /\ SettledBy(t) = {Head(requestQueue)}
              /\ t.jobs[Head(requestQueue)].handle = "resolved"
    /\ \A i, k \in 1..Len(resolvedLog) : i # k => resolvedLog[i] # resolvedLog[k]

\* C12: the first READY: of a worker process leaves the worker Ready rather
\* than Busy, whatever happened to its predecessor, and a job submitted
\* after it to an empty queue has its predict message written to that worker.
C12_ReadyAfterRespawn ==
    \A p \in ProcIds :
        (procs[p].st = "running" /\ p = pythonProcess /\ ~procs[p].ready)
        => LET t == HandleLine(St, p, ReadyLine)
           IN  /\ WorkerState(t) = "Ready"
               /\ t.requestQueue = <<>>
                  => \A req \in Requests :
                        LET u == sendPrediction(t, req.imagePath, req.modelPath)
                        IN  /\ Len(u.written) = Len(written) + 1
                            /\ u.written[Len(u.written)].proc = p
                            /\ u.written[Len(u.written)].job = Len(jobs) + 1

\* C13: every well-formed RESULT: line with which a worker answers a predict
\* message leaves the worker not busy unless it writes the predict message
\* of the new head, also when the job in flight has left the queue by its
\* timeout; with a job at the head, that job is resolved and removed.
C13_ResultFreesWorker ==
    \A p \in Answering, line \in WellFormed :
        LET t == HandleLine(St, p, line)
        IN  /\ requestQueue # <<>>
               => /\ t.jobs[Head(requestQueue)].handle # "pending"
                  /\ Len(t.requestQueue) = Len(requestQueue) - 1
            /\ IF t.requestQueue = <<>>
               THEN ~t.isProcessing /\ t.written = written
               ELSE /\ t.isProcessing
                    /\ t.written = Append(written, PredictOf(t, Head(t.requestQueue)))

\* C14: sendPrediction with the worker loaded appends the job at the tail;
\* on an empty queue it writes the job's predict message in the same step,
\* on a non-empty queue it writes nothing.
C14_EnqueueDispatches ==
    (pythonProcess # Null /\ isModelLoaded)
    => \A req \in Requests :
          LET t == sendPrediction(St, req.imagePath, req.modelPath)
              n == Len(jobs) + 1
          IN  /\ t.requestQueue = Append(requestQueue, n)
              /\ IF requestQueue = <<>>
                 THEN t.written = Append(written, PredictOf(t, n))
                 ELSE t.written = written

\* The state of sendPrediction after requestQueue.push, before it calls
\* processNextRequest.
Pushed(req) ==
    [St EXCEPT !.jobs = Append(@, NewJob(req.imagePath, req.modelPath, "queue")),
               !.requestQueue = Append(@, Len(jobs) + 1)]

\* The states processNextRequest is called in from sendPrediction, and the
\* current state.
DispatchStates ==
    {St} \cup (IF Unavailable THEN {} ELSE {Pushed(req) : req \in Requests})

\* C15: processNextRequest changes nothing and writes nothing when the queue
\* is empty, isProcessing is true or isModelLoaded is false; otherwise it
\* sets isProcessing and writes exactly one predict message, built from the
\* head job (its image path, its model path or "default"), and leaves the
\* head in the queue.
C15_ProcessNextRequestEffect ==
    \A s \in DispatchStates :
        LET t == processNextRequest(s)
        IN  IF s.requestQueue = <<>> \/ s.isProcessing \/ ~s.isModelLoaded
            THEN t = s
            ELSE /\ t.isProcessing
                 /\ ~t.threw
                 /\ t.written = Append(s.written, PredictOf(s, Head(s.requestQueue)))
                 /\ t.requestQueue = s.requestQueue
                 /\ t.jobs = s.jobs
                 /\ t.isModelLoaded = s.isModelLoaded
                 /\ t.pythonProcess = s.pythonProcess
                 /\ t.respawnTimers = s.respawnTimers

\* C15 happens: the predict message of the job at the head was the last one
\* written, with "default" for the model path the request did not give; the
\* job is still at the head and a second job waits behind it.
C15_Witness ==
    /\ isProcessing
    /\ Len(requestQueue) = 2
    /\ written = <<PredictOf(St, Head(requestQueue))>>
    /\ jobs[Head(requestQueue)].modelPath = "null"
    /\ written[1].model_path = "default"

\* C17: an ERROR: line, and a line that is none of READY:, RESULT:, ERROR:,
\* changes nothing: requestQueue, isProcessing, isModelLoaded and every job
\* handle stay as they are and no predict message is written.
C17_ErrorLineChangesNothing ==
    \A p \in ProcIds, line \in {ErrorLine, OtherLine} :
        procs[p].st = "running"
        => LET t == HandleLine(St, p, line)
           IN  /\ t.requestQueue = requestQueue
               /\ t.isProcessing = isProcessing
               /\ t.isModelLoaded = isModelLoaded
               /\ t.jobs = jobs
               /\ t.written = written
               /\ ~t.threw

\* C17 happens: one job is in flight at the worker, unanswered and pending,
\* when a line of the worker can arrive.
C17_Witness ==
    /\ Len(jobs) = 1
    /\ requestQueue = <<1>>
    /\ isProcessing
    /\ jobs[1].handle = "pending"
    /\ jobs[1].answer = "none"
    /\ pythonProcess # Null
    /\ procs[pythonProcess].st = "running"
    /\ procs[pythonProcess].stdin = <<1>>

\* C18: the predict messages are written in the order their jobs were
\* enqueued, and none is written twice.
C18_WrittenInEnqueueOrder ==
    \A i, k \in 1..Len(written) : i < k => written[i].job < written[k].job

\* C18 happens: two predict messages were written, the second after the
\* first job was resolved, and the first job's timer has expired since.
C18_Witness ==
    /\ Len(written) = 2
    /\ jobs[written[1].job].handle = "resolved"
    /\ jobs[written[1].job].timer = "fired"
    /\ written[1].job < written[2].job

\* C19: sendPrediction takes the one-shot fallback exactly when pythonProcess
\* is null or isModelLoaded is false; with the worker loaded and busy the job
\* is enqueued and gets its timer; a fallback job is never in requestQueue
\* and has no timer, a queue job has no one-shot process.
C19_FallbackExactlyWhenUnavailable ==
    /\ \A req \in Requests :
          LET t == sendPrediction(St, req.imagePath, req.modelPath)
              n == Len(jobs) + 1
          IN  /\ (t.jobs[n].route = "oneshot") <=> Unavailable
              /\ WorkerState(St) = "Busy"
                 => /\ t.jobs[n].route = "queue"
                    /\ t.requestQueue = Append(requestQueue, n)
                    /\ t.jobs[n].timer = "armed"
                    /\ t.jobs[n].oneshot = "none"
              /\ t.jobs[n].route = "oneshot"
                 => /\ t.requestQueue = requestQueue
                    /\ t.jobs[n].timer = "none"
    /\ \A j \in OneShotJobs : ~InQueue(j) /\ jobs[j].timer = "none"
    /\ \A j \in QueueJobs : jobs[j].oneshot = "none" /\ jobs[j].timer # "none"

\* C19 happens: a request that arrived while the worker was busy with the
\* first job is in the queue behind it with its timer armed, no one-shot
\* process was started.
C19_Witness ==
    /\ WorkerState(St) = "Busy"
    /\ QueueJobs = {1, 2}
    /\ requestQueue = <<1, 2>>
    /\ jobs[2].timer = "armed"
    /\ jobs[2].oneshot = "none"
    /\ Len(written) = 1

\* C20: when the job in flight at the worker has been rejected by its timeout
\* and is out of the queue, and another job is at the head, the worker's
\* well-formed RESULT:
\* line for the job in flight resolves the job at the head, with the result
\* produced for the other job's predict message.
C20_ResultGoesToNewHead ==
    \A p \in Answering, line \in WellFormed :
        LET f == Head(procs[p].stdin)
        IN  (jobs[f].value.err = "Inference timeout" /\ ~InQueue(f)
               /\ requestQueue # <<>>)
            => LET h == Head(requestQueue)
                   t == HandleLine(St, p, line)
               IN  /\ h # f
                   /\ jobs[h].handle = "pending"
                   /\ t.jobs[h].handle = "resolved"
                   /\ t.jobs[h].value.forJob = f
                   /\ t.jobs[f].handle = "rejected"
                   /\ t.requestQueue = Tail(requestQueue)

\* C20 happens: a job is resolved with the result the worker produced for
\* the predict message of another job, which had been rejected by its
\* timeout.
C20_Witness ==
    \E j \in QueueJobs :
        /\ jobs[j].handle = "resolved"
        /\ jobs[j].value.forJob \notin {0, j}
        /\ jobs[jobs[j].value.forJob].value.err = "Inference timeout"
        /\ ~Written(j)

\* The exit statuses other than 0.
NonzeroCodes == (ExitCodes \cup {SpawnFailCode}) \ {0}

\* Job j was in requestQueue when the worker exited with a nonzero status:
\* no request is enqueued while pythonProcess is null, and the respawn of a
\* nonzero exit is pending.
LeftBehind(j) == pythonProcess = Null /\ respawnTimers > 0 /\ InQueue(j)

\* Every RESULT: line that resolved a job was the worker's answer to a
\* predict message: the worker printed none unasked.
OnlyAnswers ==
    \A k \in QueueJobs : jobs[k].handle = "resolved" => jobs[k].value.forJob # 0

\* Job j is not resolved, unless by a RESULT: line the worker printed unasked.
NotResolved(j) ==
    (j <= Len(jobs) /\ OnlyAnswers) => jobs[j].handle # "resolved"

OneShotLines == {"log", "bad", "ok", "fail", "noimg"}

OneShotPrints ==
    UNION {[1..n -> OneShotLines] : n \in 0..MaxPrinted}

\* The loop from the last line back to the first one that begins with '{':
\* "nojson" when there is none (jsonLine stays empty).
RECURSIVE LastJsonLine(_)
LastJsonLine(lines) ==
    IF lines = <<>> THEN "nojson"
    ELSE IF lines[Len(lines)] # "log" THEN lines[Len(lines)]
    ELSE LastJsonLine(SubSeq(lines, 1, Len(lines) - 1))

\* C22: at the close of the one-shot process the handle is resolved with the
\* parse of the last line beginning with '{' when the exit status is 0 and
\* that line is valid JSON, and rejected when the status is not 0, no line
\* begins with '{' or that line does not parse; a close after a spawn error
\* changes neither the handle nor its value.
C22_OneShotOutcome ==
    \A j \in OneShotJobs, code \in ExitCodes, lines \in OneShotPrints :
        LET out == LastJsonLine(lines)
            t   == oneShotClose(St, j, code, out)
        IN  /\ jobs[j].oneshot = "running"
               => IF code = 0 /\ out # "nojson" /\ JSONparse(out).ok
                  THEN /\ t.jobs[j].handle = "resolved"
                       /\ t.jobs[j].value.success = JSONparse(out).success
                  ELSE t.jobs[j].handle = "rejected"
            /\ jobs[j].oneshot = "errored"
               => /\ jobs[j].handle = "rejected"
                  /\ t.jobs[j].handle = jobs[j].handle
                  /\ t.jobs[j].value = jobs[j].value

\* C23: every job submitted on the persistent path whose handle is not
\* settled is in requestQueue, whatever RESULT payloads the worker sent.
C23_PendingJobsQueued ==
    \A j \in QueueJobs : jobs[j].handle = "pending" => InQueue(j)

\* C24: the expiry of the timer of a job that has been resolved removes no
\* entry from requestQueue and settles no handle, whatever the queue holds.
C24_ExpiredTimerOfResolvedJob ==
    \A j \in QueueJobs :
        (jobs[j].handle = "resolved" /\ jobs[j].timer = "armed")
        => LET t == timeoutCallback(St, j)
           IN  /\ t.requestQueue = requestQueue
               /\ \A k \in 1..Len(jobs) : t.jobs[k].handle = jobs[k].handle

\* C25: while isModelLoaded is true pythonProcess refers to a running worker
\* that has emitted READY: and whose close event has not been handled; no
\* call of processNextRequest throws on a null handle, and every predict
\* message written while the worker is loaded goes to that worker.
C25_LoadedImpliesLiveWorker ==
    /\ isModelLoaded
       => /\ pythonProcess # Null
          /\ procs[pythonProcess].st = "running"
          /\ procs[pythonProcess].ready
    /\ \A s \in DispatchStates :
          LET t == processNextRequest(s)
          IN  /\ ~t.threw
              /\ t.written # s.written
                 => /\ t.written[Len(t.written)].proc = pythonProcess
                    /\ procs[pythonProcess].st = "running"
    /\ ~uncaught

\* C25 happens: the worker exited with a job in flight, its successor was
\* spawned and has emitted READY:; the job left behind is still at the head,
\* unanswered, and nothing is in flight at the new worker.
C25_Witness ==
    /\ isModelLoaded
    /\ pythonProcess # Null
    /\ procs[pythonProcess].stdin = <<>>
    /\ requestQueue # <<>>
    /\ Written(Head(requestQueue))
    /\ jobs[Head(requestQueue)].answer = "none"
    /\ jobs[Head(requestQueue)].handle = "pending"

\* C21: once all the worker wrote has been delivered, whatever the data
\* events it came in, the READY:, RESULT: and ERROR: lines recognised are
\* the lines the worker wrote, each once and with its whole payload, and
\* every RESULT: line has resolved a job.
C21_ChunkingIrrelevant ==
    wire.text = <<>>
    => /\ wire.seen = wire.wrote
       /\ Len(resolvedLog) = Results(wire.wrote)

====
